---- MODULE Spec2Model ----
(***************************************************************************)
(* KBook: the chapter-generation workflow of src/App.tsx.                  *)
(*                                                                         *)
(* The state is the React state of the App component, the two fields of    *)
(* the input pane that the pane checks, and the in-flight asynchronous     *)
(* calls.  Every event handler, every synchronous                          *)
(* continuation of an async function (the code between two awaits) and     *)
(* every effect is one action; the state updates of one action are applied *)
(* together.  An effect is enabled whenever its condition holds.  User     *)
(* actions are enabled exactly where the rendered pane offers an enabled   *)
(* button.                                                                 *)
(*                                                                         *)
(* Texts (fragments, buffers, contents, keys, identifiers) are sequences   *)
(* of one-character strings.                                               *)
(*                                                                         *)
(* Date.now() is read only by flattenStructureToTasks.  `now` is the value *)
(* of the last reading and `later` tells that a millisecond has certainly  *)
(* passed since: a click or the answer of a remote call came in between.   *)
(* A reading returns a value after `now` when `later` holds, and `now` or  *)
(* a value after it otherwise.  Identifiers are only compared for          *)
(* equality, so the value after `now` is now + 1.                          *)
(***************************************************************************)
EXTENDS Integers, Sequences, FiniteSets, TLC

\* ------------------------------------------------------------------ bounds
\* Number of top-level entries of the largest outline the model returns.
MaxEntries == 2
\* Number of text fragments one chapter stream delivers at most.
MaxChunks == 2
\* The largest reading of the clock (the readings are 1..MaxNow).
MaxNow == 2

\* ------------------------------------------------------------ text helpers
Whitespace == {" "}

Alnum == {"a", "b", "c", "e", "h", "p", "r", "t",
          "0", "1", "2", "3", "4", "5", "6", "7", "8", "9"}

RECURSIVE TrimStart(_)
TrimStart(s) ==
  IF s = <<>> THEN <<>>
  ELSE IF Head(s) \in Whitespace THEN TrimStart(Tail(s)) ELSE s

RECURSIVE TrimEnd(_)
TrimEnd(s) ==
  IF s = <<>> THEN <<>>
  ELSE IF s[Len(s)] \in Whitespace THEN TrimEnd(SubSeq(s, 1, Len(s) - 1)) ELSE s

\* String.prototype.trim
Trim(s) == TrimEnd(TrimStart(s))

\* key.replace(/\s+/g, '-')
RECURSIVE ReplaceWhitespaceRuns(_)
ReplaceWhitespaceRuns(s) ==
  IF s = <<>> THEN <<>>
  ELSE IF Head(s) \in Whitespace
       THEN <<"-">> \o ReplaceWhitespaceRuns(TrimStart(s))
       ELSE <<Head(s)>> \o ReplaceWhitespaceRuns(Tail(s))

\* .replace(/[^a-zA-Z0-9-]/g, '')
RECURSIVE RemoveNonIdChars(_)
RemoveNonIdChars(s) ==
  IF s = <<>> THEN <<>>
  ELSE IF Head(s) \in Alnum \cup {"-"}
       THEN <<Head(s)>> \o RemoveNonIdChars(Tail(s))
       ELSE RemoveNonIdChars(Tail(s))

SanitizeKey(key) == RemoveNonIdChars(ReplaceWhitespaceRuns(key))

DigitChar == <<"0", "1", "2", "3", "4", "5", "6", "7", "8", "9">>

\* Number.prototype.toString inside the template literal
RECURSIVE Decimal(_)
Decimal(n) ==
  IF n < 10 THEN <<DigitChar[n + 1]>>
  ELSE Decimal(n \div 10) \o <<DigitChar[(n % 10) + 1]>>

\* --------------------------------------------------------------- the outline
\* A BookStructure is the sequence of its top-level entries in
\* Object.entries order.  A value is a leaf string or a nested record of
\* strings.
Leaf(text) == [leaf |-> TRUE, text |-> text, entries |-> <<>>]
Node(entries) == [leaf |-> FALSE, text |-> "", entries |-> entries]

FullOutline ==
  << [key |-> <<"a">>,           value |-> Leaf("desc1")],
     [key |-> <<"a", "!">>,      value |-> Node(<< <<"A", "x">>, <<"B", "y">> >>)],
     [key |-> <<"!", " ", "b">>, value |-> Leaf("desc3")],
     [key |-> <<"!">>,           value |-> Leaf("desc4")] >>

\* The outlines the model client may return: zero to MaxEntries entries.
Outlines == { SubSeq(FullOutline, 1, n) : n \in 0..MaxEntries }

\* JSON.stringify(value, null, 2) of a nested record, as a token sequence
RECURSIVE StringifyMembers(_)
StringifyMembers(entries) ==
  IF entries = <<>> THEN <<>>
  ELSE <<"\n  ", "\"", entries[1][1], "\"", ": ", "\"", entries[1][2], "\"">>
       \o (IF Len(entries) > 1 THEN <<",">> ELSE <<>>)
       \o StringifyMembers(Tail(entries))

\* Variant: every nested record serialized as the empty object.
StringifyEmpty(value) == <<"{}">>

Stringify(value) ==
  IF value.entries = <<>> THEN <<"{}">>
  ELSE <<"{">> \o StringifyMembers(value.entries) \o <<"\n", "}">>

\* ------------------------------------------------------------------- values
UserInput == "USER_INPUT"
GeneratingOutline == "GENERATING_OUTLINE"
OutlineReview == "OUTLINE_REVIEW"
GeneratingChapters == "GENERATING_CHAPTERS"
ViewBook == "VIEW_BOOK"

\* null / undefined
NoInputs == [null |-> TRUE]
NoTitle == "null"
NoStructure == <<>>        \* a present structure s is held as <<s>>
NoId == <<>>               \* identifiers are never empty
NoMessage == "undefined"
NoError == [kind |-> "null", title |-> <<>>, message |-> ""]

\* What the user types into the subject field
Subjects == {<<>>, <<" ">>, <<" ", "s">>}

\* What the user types into the chapter-count field
Entries == { <<>>, <<"a">>, <<"0">>, <<"-", "5">>, <<"7">>, <<"1", "2">>,
            <<" ", "1", "3">>, <<"1", "3", "a">> }

\* A number n is held as <<n>>, NaN as <<>>
NaN == <<>>

DigitValue(char) == CHOOSE digit \in 0..9 : DigitChar[digit + 1] = char

RECURSIVE DigitsPrefix(_)
DigitsPrefix(s) ==
  IF s = <<>> THEN <<>>
  ELSE IF \E digit \in 0..9 : DigitChar[digit + 1] = Head(s)
       THEN <<Head(s)>> \o DigitsPrefix(Tail(s))
       ELSE <<>>

RECURSIVE DigitsValue(_)
DigitsValue(digits) ==
  IF digits = <<>> THEN 0
  ELSE 10 * DigitsValue(SubSeq(digits, 1, Len(digits) - 1))
         + DigitValue(digits[Len(digits)])

\* parseInt(text, 10): leading whitespace, a sign, then the leading digits
ParseInt(text) ==
  LET unpadded == TrimStart(text)
      signed == unpadded # <<>> /\ Head(unpadded) \in {"-", "+"}
      digits == DigitsPrefix(IF signed THEN Tail(unpadded) ELSE unpadded)
  IN IF digits = <<>> THEN NaN
     ELSE IF signed /\ Head(unpadded) = "-"
          THEN <<0 - DigitsValue(digits)>>
          ELSE <<DigitsValue(digits)>>

\* Variant: the parsed entry without the lower limit.
ChapterCountWithoutMinimum(entry) ==
  LET parsed == ParseInt(entry)
  IN IF parsed = NaN \/ parsed = <<0>> THEN 12 ELSE parsed[1]

\* Math.max(12, parseInt(e.target.value, 10) || 12)
ChapterCount(entry) ==
  LET parsed == ParseInt(entry)
      orTwelve == IF parsed = NaN \/ parsed = <<0>> THEN 12 ELSE parsed[1]
  IN IF orTwelve > 12 THEN orTwelve ELSE 12

\* The configurations the input pane passes on.  Of the seven fields the two
\* that the pane checks are kept.
Inputs ==
  { [subject |-> text, numberOfChapters |-> ChapterCount(entry)] :
      text \in {typed \in Subjects : Trim(typed) # <<>>}, entry \in Entries }

\* response.text.trim() of the title call; "" when the text is blank
Titles == {"", "Title"}

\* What a failing call throws: an Error with a message, or another value.
Failures == { [isError |-> TRUE, message |-> "network"],
              [isError |-> FALSE, message |-> ""] }

\* chunk.text of one stream chunk: a string, or undefined
NoText == <<"undefined">>
Fragments == { <<>>, <<" ">>, <<"a">> }
ChunkTexts == Fragments \cup {NoText}

VARIABLES
  currentStep,                      \* App.tsx:13
  userInputs,                       \* App.tsx:14
  bookTitle,                        \* App.tsx:15
  bookStructure,                    \* App.tsx:16
  chapterTasks,                     \* App.tsx:17
  error,                            \* App.tsx:18
  isLoading,                        \* App.tsx:19
  isAutoGeneratingChapters,         \* App.tsx:20
  activelyGeneratingChapterId,      \* App.tsx:21
  apiKeyMissing,                    \* App.tsx:22
  generatingChapterContentRef,      \* App.tsx:24
  subject,                          \* UserInputPane.tsx:53
  numberOfChapters,                 \* UserInputPane.tsx:60
  now,                              \* the last reading of Date.now()
  later,                            \* time has passed since that reading
  outlineCall,                      \* the running handleUserInputSubmit
  chapterCalls,                     \* the running handleGenerateChapterContent calls
  last,                             \* history: the step just taken, and the
                                    \*   fragments of the stream it ended
  retiredClock                      \* history: the clock at the last resetState

vars == <<currentStep, userInputs, bookTitle, bookStructure, chapterTasks,
          error, isLoading, isAutoGeneratingChapters,
          activelyGeneratingChapterId, apiKeyMissing,
          generatingChapterContentRef, subject, numberOfChapters, now, later,
          outlineCall, chapterCalls, last, retiredClock>>

\* The state of the input pane
form == <<subject, numberOfChapters>>

\* ------------------------------------------------------ history and clock
Did(action, id) == last' = [action |-> action, taskId |-> id, stream |-> <<>>]

\* The stream of `call` has ended: the step records the fragments it delivered
Ended(action, call) ==
  last' = [action |-> action, taskId |-> call.taskId, stream |-> call.delivered]

\* A click, or the answer of a remote call: time has passed.
TimePasses == now' = now /\ later' = TRUE

\* A reading of Date.now()
Reading(stamp, certainlyLater) ==
  /\ stamp \in (IF certainlyLater THEN {now + 1} ELSE {now, now + 1})
  /\ stamp <= MaxNow
  /\ now' = stamp
  /\ later' = FALSE

IdsOf(tasks) == { tasks[i].id : i \in 1..Len(tasks) }

\* ------------------------------------------------------------ task helpers
ChapterWord == <<"c", "h", "a", "p", "t", "e", "r">>

\* Variant: an identifier without the position of the entry.
TaskIdWithoutOrder(key, clock, order) ==
  (IF SanitizeKey(key) = <<>> THEN ChapterWord ELSE SanitizeKey(key))
    \o <<"-">> \o Decimal(clock)

\* Variant: an identifier without the clock reading.
TaskIdWithoutClock(key, clock, order) ==
  (IF SanitizeKey(key) = <<>> THEN ChapterWord ELSE SanitizeKey(key))
    \o <<"-">> \o Decimal(order)

\* `${sanitizedKey || 'chapter'}-${Date.now()}-${order}`
TaskId(key, clock, order) ==
  (IF SanitizeKey(key) = <<>> THEN ChapterWord ELSE SanitizeKey(key))
    \o <<"-">> \o Decimal(clock) \o <<"-">> \o Decimal(order)

\* typeof value === 'string' ? value : JSON.stringify(value, null, 2)
ChapterOutline(value) == IF value.leaf THEN <<value.text>> ELSE Stringify(value)

\* Variant: the content of a fresh task is seeded with the clock reading.
flattenWithSeededContent(structure, clock) ==
  [ i \in 1..Len(structure) |->
      [ id           |-> TaskId(structure[i].key, clock, i - 1),
        title        |-> structure[i].key,
        description  |-> ChapterOutline(structure[i].value),
        path         |-> <<structure[i].key>>,
        status       |-> "pending",
        content      |-> Decimal(clock),
        errorMessage |-> NoMessage ] ]

flattenStructureToTasks(structure, clock) ==
  [ i \in 1..Len(structure) |->
      [ id           |-> TaskId(structure[i].key, clock, i - 1),
        title        |-> structure[i].key,
        description  |-> ChapterOutline(structure[i].value),
        path         |-> <<structure[i].key>>,
        status       |-> "pending",
        content      |-> <<>>,
        errorMessage |-> NoMessage ] ]

\* { ...task, ...fields }
Spread(task, fields) ==
  [ f \in DOMAIN task |-> IF f \in DOMAIN fields THEN fields[f] ELSE task[f] ]

\* Variant: the fields are written to every task of the list.
MapEveryTask(tasks, taskId, fields) ==
  [ i \in 1..Len(tasks) |-> Spread(tasks[i], fields) ]

\* prev.map(t => t.id === taskId ? { ...t, ...fields } : t)
MapTask(tasks, taskId, fields) ==
  [ i \in 1..Len(tasks) |->
      IF tasks[i].id = taskId THEN Spread(tasks[i], fields) ELSE tasks[i] ]

\* Variant: a failed task counts as pending again.
IsPendingOrFailed(task) == task.status \in {"pending", "error"}

\* task.status === 'pending'
IsPending(task) == task.status = "pending"

\* chapterTasks.findIndex(t => t.id === taskId), 1-based; 0 when there is none
IndexOfId(tasks, taskId) ==
  IF \E i \in 1..Len(tasks) : tasks[i].id = taskId
  THEN CHOOSE i \in 1..Len(tasks) :
         tasks[i].id = taskId /\ \A j \in 1..(i - 1) : tasks[j].id # taskId
  ELSE 0

\* Variant: no task is ever found pending.
NoPendingIndex(tasks) == 0

\* Variant: the last pending task instead of the first.
LastPendingIndex(tasks) ==
  IF \E i \in 1..Len(tasks) : IsPending(tasks[i])
  THEN CHOOSE i \in 1..Len(tasks) :
         IsPending(tasks[i]) /\ \A j \in (i + 1)..Len(tasks) : ~IsPending(tasks[j])
  ELSE 0

\* chapterTasks.find(task => task.status === 'pending'), as a 1-based
\* position; 0 when there is none
NextPendingIndex(tasks) ==
  IF \E i \in 1..Len(tasks) : IsPending(tasks[i])
  THEN CHOOSE i \in 1..Len(tasks) :
         IsPending(tasks[i]) /\ \A j \in 1..(i - 1) : ~IsPending(tasks[j])
  ELSE 0

\* tasks.every(task => task.status === 'done' || task.status === 'error')
allTasksProcessed ==
  \A i \in 1..Len(chapterTasks) : chapterTasks[i].status \in {"done", "error"}

\* Variant: every task with content counts, whatever its status.
RECURSIVE anyGeneratedContent(_, _)
anyGeneratedContent(tasks, taskIndex) ==
  IF taskIndex <= 1 THEN <<>>
  ELSE anyGeneratedContent(tasks, taskIndex - 1)
       \o (IF tasks[taskIndex - 1].content # <<>>
           THEN << <<tasks[taskIndex - 1].title, tasks[taskIndex - 1].content>> >>
           ELSE <<>>)

\* The preceding chapters handed to the chapter request: the 'done' tasks with
\* non-empty content before position taskIndex, in list order.
RECURSIVE previouslyGeneratedContent(_, _)
previouslyGeneratedContent(tasks, taskIndex) ==
  IF taskIndex <= 1 THEN <<>>
  ELSE previouslyGeneratedContent(tasks, taskIndex - 1)
       \o (IF tasks[taskIndex - 1].status = "done" /\ tasks[taskIndex - 1].content # <<>>
           THEN << <<tasks[taskIndex - 1].title, tasks[taskIndex - 1].content>> >>
           ELSE <<>>)

\* err instanceof Error ? err.message : fallback
MessageOf(failure, fallback) == IF failure.isError THEN failure.message ELSE fallback

NoCall == [phase |-> "none", inputs |-> NoInputs]

\* -------------------------------------------------------------------- Init
Init ==
  /\ currentStep = UserInput
  /\ userInputs = NoInputs
  /\ bookTitle = NoTitle
  /\ bookStructure = NoStructure
  /\ chapterTasks = <<>>
  /\ error = NoError
  /\ isLoading = FALSE
  /\ isAutoGeneratingChapters = FALSE
  /\ activelyGeneratingChapterId = NoId
  /\ apiKeyMissing \in BOOLEAN
  /\ generatingChapterContentRef = <<>>
  /\ subject = <<>>
  /\ numberOfChapters = 12
  /\ now = 0
  /\ later = FALSE
  /\ outlineCall = NoCall
  /\ chapterCalls = {}
  /\ last = [action |-> "init", taskId |-> NoId, stream |-> <<>>]
  /\ retiredClock = 0

\* ------------------------------------------------------- outline generation
\* Variant: the reset that keeps the error message.
resetStateKeepingError ==
  /\ userInputs' = NoInputs
  /\ bookTitle' = NoTitle
  /\ bookStructure' = NoStructure
  /\ chapterTasks' = <<>>
  /\ error' = error
  /\ currentStep' = UserInput
  /\ isLoading' = FALSE
  /\ isAutoGeneratingChapters' = FALSE
  /\ activelyGeneratingChapterId' = NoId
  /\ generatingChapterContentRef' = <<>>
  /\ retiredClock' = now

resetState ==
  /\ userInputs' = NoInputs
  /\ bookTitle' = NoTitle
  /\ bookStructure' = NoStructure
  /\ chapterTasks' = <<>>
  /\ error' = NoError
  /\ currentStep' = UserInput
  /\ isLoading' = FALSE
  /\ isAutoGeneratingChapters' = FALSE
  /\ activelyGeneratingChapterId' = NoId
  /\ generatingChapterContentRef' = <<>>
  /\ retiredClock' = now

\* The fields of the input pane (shown at the input stage)
setSubject(text) ==
  /\ currentStep = UserInput
  /\ subject' = text
  /\ Did("Edit", NoId) /\ TimePasses
  /\ UNCHANGED <<numberOfChapters, currentStep, userInputs, bookTitle,
                 bookStructure, chapterTasks, error, isLoading,
                 isAutoGeneratingChapters, activelyGeneratingChapterId,
                 generatingChapterContentRef, apiKeyMissing, outlineCall,
                 chapterCalls, retiredClock>>

setNumberOfChapters(entry) ==
  /\ currentStep = UserInput
  /\ numberOfChapters' = ChapterCount(entry)
  /\ Did("Edit", NoId) /\ TimePasses
  /\ UNCHANGED <<subject, currentStep, userInputs, bookTitle,
                 bookStructure, chapterTasks, error, isLoading,
                 isAutoGeneratingChapters, activelyGeneratingChapterId,
                 generatingChapterContentRef, apiKeyMissing, outlineCall,
                 chapterCalls, retiredClock>>

\* The submit button of the input pane: the form is valid and nothing loads
SubmitEnabled ==
  /\ currentStep = UserInput
  /\ ~(isLoading \/ Trim(subject) = <<>> \/ numberOfChapters < 12)

\* handleUserInputSubmit when the key is missing (the first render shows the
\* input pane before the configuration-error screen replaces it)
SubmitWithoutKey ==
  /\ SubmitEnabled
  /\ apiKeyMissing
  /\ error' = [kind |-> "config", title |-> <<>>,
               message |-> "Application is not configured correctly. API Key is missing."]
  /\ Did("SubmitWithoutKey", NoId) /\ TimePasses
  /\ UNCHANGED <<form, currentStep, userInputs, bookTitle, bookStructure,
                 chapterTasks,
                 isLoading, isAutoGeneratingChapters, activelyGeneratingChapterId,
                 generatingChapterContentRef, apiKeyMissing, outlineCall,
                 chapterCalls, retiredClock>>

\* Variant: the submit that keeps the outline of the previous submission.
handleUserInputSubmitKeepingOutline(inputs) ==
  /\ SubmitEnabled
  /\ ~apiKeyMissing
  /\ userInputs' = inputs
  /\ currentStep' = GeneratingOutline
  /\ isLoading' = TRUE
  /\ error' = NoError
  /\ bookTitle' = NoTitle
  /\ chapterTasks' = <<>>
  /\ outlineCall' = [phase |-> "structure", inputs |-> inputs]
  /\ Did("Submit", NoId) /\ TimePasses
  /\ UNCHANGED <<bookStructure, isAutoGeneratingChapters, activelyGeneratingChapterId,
                 generatingChapterContentRef, apiKeyMissing, chapterCalls,
                 retiredClock>>

\* Variant: the submit without its test of apiKeyMissing.
handleUserInputSubmitWithoutKey(inputs) ==
  /\ SubmitEnabled
  /\ userInputs' = inputs
  /\ currentStep' = GeneratingOutline
  /\ isLoading' = TRUE
  /\ error' = NoError
  /\ bookStructure' = NoStructure
  /\ bookTitle' = NoTitle
  /\ chapterTasks' = <<>>
  /\ outlineCall' = [phase |-> "structure", inputs |-> inputs]
  /\ Did("Submit", NoId) /\ TimePasses
  /\ UNCHANGED <<isAutoGeneratingChapters, activelyGeneratingChapterId,
                 generatingChapterContentRef, apiKeyMissing, chapterCalls,
                 retiredClock>>

\* Variant: the outline is requested with the configuration of the render,
\* not with the submitted one.
handleUserInputSubmitWithStoredInputs(inputs) ==
  /\ SubmitEnabled
  /\ ~apiKeyMissing
  /\ userInputs' = inputs
  /\ currentStep' = GeneratingOutline
  /\ isLoading' = TRUE
  /\ error' = NoError
  /\ bookStructure' = NoStructure
  /\ bookTitle' = NoTitle
  /\ chapterTasks' = <<>>
  /\ outlineCall' = [phase |-> "structure", inputs |-> userInputs]
  /\ Did("Submit", NoId) /\ TimePasses
  /\ UNCHANGED <<isAutoGeneratingChapters, activelyGeneratingChapterId,
                 generatingChapterContentRef, apiKeyMissing, chapterCalls,
                 retiredClock>>

\* handleUserInputSubmit up to its first await
handleUserInputSubmit(inputs) ==
  /\ SubmitEnabled
  /\ ~apiKeyMissing
  /\ userInputs' = inputs
  /\ currentStep' = GeneratingOutline
  /\ isLoading' = TRUE
  /\ error' = NoError
  /\ bookStructure' = NoStructure
  /\ bookTitle' = NoTitle
  /\ chapterTasks' = <<>>
  /\ outlineCall' = [phase |-> "structure", inputs |-> inputs]
  /\ Did("Submit", NoId) /\ TimePasses
  /\ UNCHANGED <<isAutoGeneratingChapters, activelyGeneratingChapterId,
                 generatingChapterContentRef, apiKeyMissing, chapterCalls,
                 retiredClock>>

\* UserInputPane.handleSubmit: a valid form is passed on, and the pane is
\* unmounted by the change of stage (its next mount starts from the defaults)
handleSubmit ==
  /\ Trim(subject) # <<>> /\ numberOfChapters >= 12
  /\ handleUserInputSubmit([subject |-> subject,
                            numberOfChapters |-> numberOfChapters])
  /\ subject' = <<>>
  /\ numberOfChapters' = 12

\* The outline stream ended and its text parsed to `structure`; the title call
\* is issued.
OutlineParsed(structure) ==
  /\ outlineCall.phase = "structure"
  /\ bookStructure' = <<structure>>
  /\ outlineCall' = [outlineCall EXCEPT !.phase = "title"]
  /\ Did("OutlineParsed", NoId) /\ TimePasses
  /\ UNCHANGED <<form, currentStep, userInputs, bookTitle, chapterTasks,
                 error, isLoading,
                 isAutoGeneratingChapters, activelyGeneratingChapterId,
                 generatingChapterContentRef, apiKeyMissing, chapterCalls,
                 retiredClock>>

\* generateBookTitle returned
TitleGenerated(title) ==
  /\ outlineCall.phase = "title"
  /\ bookTitle' = title
  /\ currentStep' = OutlineReview
  /\ isLoading' = FALSE
  /\ outlineCall' = NoCall
  /\ Did("TitleGenerated", NoId) /\ TimePasses
  /\ UNCHANGED <<form, userInputs, bookStructure, chapterTasks, error,
                 isAutoGeneratingChapters, activelyGeneratingChapterId,
                 generatingChapterContentRef, apiKeyMissing, chapterCalls,
                 retiredClock>>

\* What the outline phase can throw: a failure of the stream or of the title
\* call, or the parse error of parseJsonFromText.
OutlineFailures ==
  Failures \cup { [isError |-> TRUE,
                   message |-> "Invalid JSON response from AI. The AI returned content that was not valid JSON."] }

\* The outline stream, the parse or the title call threw
OutlineFailed(failure) ==
  /\ outlineCall.phase \in {"structure", "title"}
  /\ error' = [kind |-> "outline", title |-> <<>>,
               message |-> MessageOf(failure, "Failed to generate outline or title.")]
  /\ currentStep' = UserInput
  /\ isLoading' = FALSE
  /\ outlineCall' = NoCall
  /\ Did("OutlineFailed", NoId)
  /\ UNCHANGED <<form, userInputs, bookTitle, bookStructure, chapterTasks,
                 isAutoGeneratingChapters, activelyGeneratingChapterId,
                 generatingChapterContentRef, apiKeyMissing, now, later,
                 chapterCalls, retiredClock>>

\* ------------------------------------------------------ outline acceptance
\* The condition of the effect of App.tsx:103-109
ReflattenDue ==
  /\ bookStructure # NoStructure
  /\ currentStep \in {OutlineReview, GeneratingChapters}
  /\ \/ Len(chapterTasks) = 0
     \/ currentStep = OutlineReview
        /\ \A i \in 1..Len(chapterTasks) : chapterTasks[i].status = "pending"

\* The effect of App.tsx:103-109: (re)flatten the outline
ReflattenEffect ==
  /\ ReflattenDue
  /\ \E stamp \in {now, now + 1} :
       /\ Reading(stamp, later)
       /\ chapterTasks' = flattenStructureToTasks(bookStructure[1], stamp)
  /\ Did("Reflatten", NoId)
  /\ UNCHANGED <<form, currentStep, userInputs, bookTitle, bookStructure,
                 error, isLoading,
                 isAutoGeneratingChapters, activelyGeneratingChapterId,
                 generatingChapterContentRef, apiKeyMissing, outlineCall,
                 chapterCalls, retiredClock>>

\* "Proceed to Write Chapters" (disabled={!title || !structure})
ProceedEnabled ==
  /\ currentStep = OutlineReview /\ ~isLoading /\ ~apiKeyMissing
  /\ bookTitle \notin {NoTitle, ""}
  /\ bookStructure # NoStructure

handleProceedToChapterGeneration ==
  /\ ProceedEnabled
  /\ bookStructure # NoStructure
  /\ Reading(now + 1, TRUE)
  /\ chapterTasks' = flattenStructureToTasks(bookStructure[1], now + 1)
  /\ currentStep' = GeneratingChapters
  /\ error' = NoError
  /\ Did("Proceed", NoId)
  /\ UNCHANGED <<form, userInputs, bookTitle, bookStructure, isLoading,
                 isAutoGeneratingChapters, activelyGeneratingChapterId,
                 generatingChapterContentRef, apiKeyMissing, outlineCall,
                 chapterCalls, retiredClock>>

\* "Back to Inputs & Reset" at outline review: resetState(); setCurrentStep(USER_INPUT)
ResetFromOutlineReview ==
  /\ currentStep = OutlineReview /\ ~isLoading /\ ~apiKeyMissing
  /\ resetState
  /\ Did("Reset", NoId) /\ TimePasses
  /\ UNCHANGED <<form, apiKeyMissing, outlineCall, chapterCalls>>

\* onStartOver of the book view
StartOver ==
  /\ currentStep = ViewBook /\ ~apiKeyMissing
  /\ resetState
  /\ Did("StartOver", NoId) /\ TimePasses
  /\ UNCHANGED <<form, apiKeyMissing, outlineCall, chapterCalls>>

\* ------------------------------------------------------- chapter generation
\* The start button is shown when !isAutoGenerating && !allTasksProcessed, in
\* the pane of a non-empty list
StartShown ==
  /\ currentStep = GeneratingChapters /\ ~apiKeyMissing
  /\ Len(chapterTasks) # 0
  /\ ~isAutoGeneratingChapters /\ ~allTasksProcessed

startAutomaticChapterGeneration ==
  /\ StartShown
  /\ isAutoGeneratingChapters' = TRUE
  /\ error' = NoError
  /\ Did("Start", NoId) /\ TimePasses
  /\ UNCHANGED <<form, currentStep, userInputs, bookTitle, bookStructure,
                 chapterTasks, isLoading,
                 activelyGeneratingChapterId, generatingChapterContentRef,
                 apiKeyMissing, outlineCall, chapterCalls, retiredClock>>

\* Variant: the button is never disabled.
BackAlwaysEnabled == currentStep = GeneratingChapters /\ ~apiKeyMissing

\* "Back to Outline" (disabled={isAutoGenerating && !!activelyGeneratingChapterId})
BackEnabled ==
  /\ currentStep = GeneratingChapters /\ ~apiKeyMissing
  /\ ~(isAutoGeneratingChapters /\ activelyGeneratingChapterId # NoId)

\* Variant: the button leads to the input stage.
GoBackToInputs ==
  /\ BackEnabled
  /\ currentStep' = UserInput
  /\ Did("Back", NoId) /\ TimePasses
  /\ UNCHANGED <<form, userInputs, bookTitle, bookStructure, chapterTasks,
                 error,
                 isLoading, isAutoGeneratingChapters, activelyGeneratingChapterId,
                 generatingChapterContentRef, apiKeyMissing, outlineCall,
                 chapterCalls, retiredClock>>

\* onGoBack of the chapter pane: setCurrentStep(OUTLINE_REVIEW)
GoBackToOutline ==
  /\ BackEnabled
  /\ currentStep' = OutlineReview
  /\ Did("Back", NoId) /\ TimePasses
  /\ UNCHANGED <<form, userInputs, bookTitle, bookStructure, chapterTasks,
                 error,
                 isLoading, isAutoGeneratingChapters, activelyGeneratingChapterId,
                 generatingChapterContentRef, apiKeyMissing, outlineCall,
                 chapterCalls, retiredClock>>

\* Variant: the button without its test of allTasksProcessed.
CompleteEnabledEarly ==
  /\ currentStep = GeneratingChapters /\ ~apiKeyMissing
  /\ Len(chapterTasks) # 0
  /\ ~isAutoGeneratingChapters

\* "View Full Book" (disabled={isAutoGenerating || !allTasksProcessed}); the
\* pane of an empty list has no such button
CompleteEnabled ==
  /\ currentStep = GeneratingChapters /\ ~apiKeyMissing
  /\ Len(chapterTasks) # 0
  /\ ~isAutoGeneratingChapters /\ allTasksProcessed

CompleteGeneration ==
  /\ CompleteEnabled
  /\ currentStep' = ViewBook
  /\ Did("Complete", NoId) /\ TimePasses
  /\ UNCHANGED <<form, userInputs, bookTitle, bookStructure, chapterTasks,
                 error,
                 isLoading, isAutoGeneratingChapters, activelyGeneratingChapterId,
                 generatingChapterContentRef, apiKeyMissing, outlineCall,
                 chapterCalls, retiredClock>>

\* The early returns of handleGenerateChapterContent (App.tsx:125-128)
MayGenerate(taskId) ==
  /\ userInputs # NoInputs /\ bookStructure # NoStructure
  /\ isAutoGeneratingChapters /\ ~apiKeyMissing
  /\ IndexOfId(chapterTasks, taskId) # 0
  /\ IsPending(chapterTasks[IndexOfId(chapterTasks, taskId)])

\* handleGenerateChapterContent(taskId) up to its first await (App.tsx:124-150)
handleGenerateChapterContent(taskId) ==
  LET taskIndex == IndexOfId(chapterTasks, taskId)
      Begin == [status |-> "generating", errorMessage |-> NoMessage, content |-> <<>>]
  IN
  IF ~MayGenerate(taskId)
  THEN UNCHANGED <<chapterTasks, activelyGeneratingChapterId,
                   generatingChapterContentRef, chapterCalls>>
  ELSE
    /\ activelyGeneratingChapterId' = taskId
    /\ chapterTasks' = MapTask(chapterTasks, taskId, Begin)
    /\ generatingChapterContentRef' = <<>>
    /\ chapterCalls' = chapterCalls \cup
         { [ taskId    |-> taskId,
             title     |-> chapterTasks[taskIndex].title,
             outline   |-> chapterTasks[taskIndex].description,
             preceding |-> previouslyGeneratedContent(chapterTasks, taskIndex),
             inputs    |-> userInputs,
             delivered |-> <<>> ] }

\* Variant: the effect without its test of isAutoGeneratingChapters.
DriverReadyWhenHalted ==
  /\ currentStep = GeneratingChapters
  /\ activelyGeneratingChapterId = NoId
  /\ ~apiKeyMissing

\* Variant: the effect without its test of activelyGeneratingChapterId.
DriverReadyWhileGenerating ==
  /\ currentStep = GeneratingChapters
  /\ isAutoGeneratingChapters
  /\ ~apiKeyMissing

\* The condition of the auto-run effect (App.tsx:176)
DriverReady ==
  /\ currentStep = GeneratingChapters
  /\ isAutoGeneratingChapters
  /\ activelyGeneratingChapterId = NoId
  /\ ~apiKeyMissing

\* The auto-run effect of App.tsx:175-184
DriverEffect ==
  /\ DriverReady
  /\ LET next == NextPendingIndex(chapterTasks) IN
       IF next # 0
       THEN /\ handleGenerateChapterContent(chapterTasks[next].id)
            /\ Did("Select", chapterTasks[next].id)
            /\ UNCHANGED isAutoGeneratingChapters
       ELSE /\ isAutoGeneratingChapters' = FALSE
            /\ Did("Exhausted", NoId)
            /\ UNCHANGED <<chapterTasks, activelyGeneratingChapterId,
                           generatingChapterContentRef, chapterCalls>>
  /\ UNCHANGED <<form, currentStep, userInputs, bookTitle, bookStructure,
                 error, isLoading,
                 apiKeyMissing, now, later, outlineCall, retiredClock>>

\* Variant: the chunk shows its own text instead of the buffer.
ChapterChunkShowingItsText(call, text) ==
  /\ call \in chapterCalls
  /\ IF text = NoText
     THEN /\ Did("ChunkWithoutText", call.taskId)
          /\ UNCHANGED <<chapterTasks, generatingChapterContentRef, chapterCalls>>
     ELSE LET buffer == generatingChapterContentRef \o text
              Show == [content |-> text]
          IN /\ Len(call.delivered) < MaxChunks
             /\ generatingChapterContentRef' = buffer
             /\ chapterTasks' = MapTask(chapterTasks, call.taskId, Show)
             /\ chapterCalls' = (chapterCalls \ {call})
                                  \cup {[call EXCEPT !.delivered = @ \o <<text>>]}
             /\ Did("Chunk", call.taskId)
  /\ TimePasses
  /\ UNCHANGED <<form, currentStep, userInputs, bookTitle, bookStructure,
                 error, isLoading,
                 isAutoGeneratingChapters, activelyGeneratingChapterId,
                 apiKeyMissing, outlineCall, retiredClock>>

\* One chunk of the stream of `call` (App.tsx:152-158).  A chunk without text
\* is skipped.
ChapterChunk(call, text) ==
  /\ call \in chapterCalls
  /\ IF text = NoText
     THEN /\ Did("ChunkWithoutText", call.taskId)
          /\ UNCHANGED <<chapterTasks, generatingChapterContentRef, chapterCalls>>
     ELSE LET buffer == generatingChapterContentRef \o text
              Show == [content |-> buffer]
          IN /\ Len(call.delivered) < MaxChunks
             /\ generatingChapterContentRef' = buffer
             /\ chapterTasks' = MapTask(chapterTasks, call.taskId, Show)
             /\ chapterCalls' = (chapterCalls \ {call})
                                  \cup {[call EXCEPT !.delivered = @ \o <<text>>]}
             /\ Did("Chunk", call.taskId)
  /\ TimePasses
  /\ UNCHANGED <<form, currentStep, userInputs, bookTitle, bookStructure,
                 error, isLoading,
                 isAutoGeneratingChapters, activelyGeneratingChapterId,
                 apiKeyMissing, outlineCall, retiredClock>>

\* Variant: the buffer as it is, untrimmed.
UntrimmedContent(buffer) == buffer

\* (generatingChapterContentRef.current || "").trim() (App.tsx:160)
FinalContent(buffer) == Trim(buffer)

\* Variant: the end of the stream without the finally block's clearing of the
\* active id.
ChapterDoneKeepingActiveId(call) ==
  /\ call \in chapterCalls
  /\ LET finalContent == FinalContent(generatingChapterContentRef)
         Commit == [status |-> "done", content |-> finalContent]
     IN chapterTasks' = MapTask(chapterTasks, call.taskId, Commit)
  /\ generatingChapterContentRef' = <<>>
  /\ chapterCalls' = chapterCalls \ {call}
  /\ Ended("Done", call) /\ TimePasses
  /\ UNCHANGED <<form, activelyGeneratingChapterId, currentStep, userInputs,
                 bookTitle, bookStructure, error, isLoading,
                 isAutoGeneratingChapters, apiKeyMissing, outlineCall,
                 retiredClock>>

\* The stream of `call` is exhausted (App.tsx:159-161, 169-172)
ChapterDone(call) ==
  /\ call \in chapterCalls
  /\ LET finalContent == FinalContent(generatingChapterContentRef)
         Commit == [status |-> "done", content |-> finalContent]
     IN chapterTasks' = MapTask(chapterTasks, call.taskId, Commit)
  /\ activelyGeneratingChapterId' = NoId
  /\ generatingChapterContentRef' = <<>>
  /\ chapterCalls' = chapterCalls \ {call}
  /\ Ended("Done", call) /\ TimePasses
  /\ UNCHANGED <<form, currentStep, userInputs, bookTitle, bookStructure,
                 error, isLoading,
                 isAutoGeneratingChapters, apiKeyMissing, outlineCall,
                 retiredClock>>

\* Variant: the buffer as it is, untrimmed.
UntrimmedErrorContents(buffer) == { buffer }

\* The content an errored task receives.  The updater of App.tsx:166 reads
\* generatingChapterContentRef.current when React runs it, and the finally
\* block (App.tsx:171) empties the ref in the same continuation: the updater
\* sees the buffer when React evaluates it at the call, and the emptied ref
\* when it runs at the next render.
ErrorContents(buffer) == { Trim(buffer), Trim(<<>>) }

\* Variant: the failure is recorded without the status.
ChapterFailedWithoutStatus(call, failure) ==
  /\ call \in chapterCalls
  /\ \E kept \in ErrorContents(generatingChapterContentRef) :
       LET errorMessage == MessageOf(failure, "Failed to generate chapter content.")
           Fail == [errorMessage |-> errorMessage, content |-> kept]
       IN /\ chapterTasks' = MapTask(chapterTasks, call.taskId, Fail)
          /\ error' = [kind |-> "chapter", title |-> call.title, message |-> errorMessage]
  /\ isAutoGeneratingChapters' = FALSE
  /\ activelyGeneratingChapterId' = NoId
  /\ generatingChapterContentRef' = <<>>
  /\ chapterCalls' = chapterCalls \ {call}
  /\ Ended("Failed", call)
  /\ UNCHANGED <<form, currentStep, userInputs, bookTitle, bookStructure,
                 isLoading,
                 apiKeyMissing, now, later, outlineCall, retiredClock>>

\* The stream of `call` threw, on opening or between chunks (App.tsx:162-172)
ChapterFailed(call, failure) ==
  /\ call \in chapterCalls
  /\ \E kept \in ErrorContents(generatingChapterContentRef) :
       LET errorMessage == MessageOf(failure, "Failed to generate chapter content.")
           Fail == [status |-> "error", errorMessage |-> errorMessage, content |-> kept]
       IN /\ chapterTasks' = MapTask(chapterTasks, call.taskId, Fail)
          /\ error' = [kind |-> "chapter", title |-> call.title, message |-> errorMessage]
  /\ isAutoGeneratingChapters' = FALSE
  /\ activelyGeneratingChapterId' = NoId
  /\ generatingChapterContentRef' = <<>>
  /\ chapterCalls' = chapterCalls \ {call}
  /\ Ended("Failed", call)
  /\ UNCHANGED <<form, currentStep, userInputs, bookTitle, bookStructure,
                 isLoading,
                 apiKeyMissing, now, later, outlineCall, retiredClock>>

\* -------------------------------------------------------------------- Next
Next ==
  \/ SubmitWithoutKey
  \/ \E text \in Subjects : setSubject(text)
  \/ \E entry \in Entries : setNumberOfChapters(entry)
  \/ handleSubmit
  \/ \E structure \in Outlines : OutlineParsed(structure)
  \/ \E title \in Titles : TitleGenerated(title)
  \/ \E failure \in OutlineFailures : OutlineFailed(failure)
  \/ ReflattenEffect
  \/ handleProceedToChapterGeneration
  \/ ResetFromOutlineReview
  \/ StartOver
  \/ startAutomaticChapterGeneration
  \/ GoBackToOutline
  \/ CompleteGeneration
  \/ DriverEffect
  \/ \E call \in chapterCalls, text \in ChunkTexts : ChapterChunk(call, text)
  \/ \E call \in chapterCalls : ChapterDone(call)
  \/ \E call \in chapterCalls, failure \in Failures : ChapterFailed(call, failure)

Spec == Init /\ [][Next]_vars

\* A running stream ends: it is exhausted or it throws
StreamEnds ==
  \E call \in chapterCalls :
    ChapterDone(call) \/ \E failure \in Failures : ChapterFailed(call, failure)

\* ---------------------------------------------------- the chapter stage
\* The stage is entered by handleProceedToChapterGeneration only, and every
\* entry flattens the outline anew: the states of entry are the fresh lists
\* of the outlines, with auto-run off, or on when the user went back between
\* two tasks of a running batch.  No step of the stage reads the
\* configuration except to pass it on, and the reading of the clock only names
\* the tasks, so one configuration and the first reading stand for all.
ChapterStageEntry ==
  /\ currentStep = GeneratingChapters
  /\ userInputs = CHOOSE inputs \in Inputs : TRUE
  /\ bookTitle \in Titles \ {""}
  /\ \E structure \in Outlines :
       /\ bookStructure = <<structure>>
       /\ chapterTasks = flattenStructureToTasks(structure, 1)
  /\ now = 1
  /\ error = NoError
  /\ isLoading = FALSE
  /\ isAutoGeneratingChapters \in BOOLEAN
  /\ activelyGeneratingChapterId = NoId
  /\ apiKeyMissing = FALSE
  /\ generatingChapterContentRef = <<>>
  /\ subject = <<>>
  /\ numberOfChapters = 12
  /\ later = FALSE
  /\ outlineCall = NoCall
  /\ chapterCalls = {}
  /\ last = [action |-> "Proceed", taskId |-> NoId, stream |-> <<>>]
  /\ retiredClock = 0

\* The steps of one stay in the chapter stage, up to the step that leaves it
ChapterStageNext ==
  \/ ReflattenEffect
  \/ startAutomaticChapterGeneration
  \/ GoBackToOutline
  \/ CompleteGeneration
  \/ DriverEffect
  \/ \E call \in chapterCalls, text \in ChunkTexts : ChapterChunk(call, text)
  \/ \E call \in chapterCalls : ChapterDone(call)
  \/ \E call \in chapterCalls, failure \in Failures : ChapterFailed(call, failure)

\* One stay in the chapter stage.  The effects run after every render, and
\* every stream is finite.
ChapterStageSpec ==
  /\ ChapterStageEntry
  /\ [][ChapterStageNext]_vars
  /\ WF_vars(DriverEffect)
  /\ WF_vars(StreamEnds)

\* =================================================================== claims
StatusOf(i) == chapterTasks[i].status

Positions == 1..Len(chapterTasks)

\* t is s without its leading and trailing whitespace
IsTrimOf(t, s) ==
  \E a, b \in 0..Len(s) :
    /\ a + b <= Len(s)
    /\ t = SubSeq(s, a + 1, Len(s) - b)
    /\ \A i \in 1..a : s[i] \in Whitespace
    /\ \A i \in (Len(s) - b + 1)..Len(s) : s[i] \in Whitespace
    /\ t # <<>> => (t[1] \notin Whitespace /\ t[Len(t)] \notin Whitespace)

\* The fragments of a stream, in arrival order, as one text
RECURSIVE Concatenation(_)
Concatenation(fragments) ==
  IF fragments = <<>> THEN <<>> ELSE Head(fragments) \o Concatenation(Tail(fragments))

\* C1: in every reachable state at most one task of the list has status
\* 'generating'.
C1_AtMostOneGenerating ==
  Cardinality({ i \in Positions : StatusOf(i) = "generating" }) <= 1

\* A task is generating after an earlier one was completed.
C1_Witness ==
  \E i, j \in Positions : i < j /\ StatusOf(i) = "done" /\ StatusOf(j) = "generating"

\* C2: the tasks that are not pending form a prefix of the list: whenever a
\* task is not pending, every task before it is done or error.
C2_ProcessedPrefix ==
  \A i, j \in Positions :
    (i < j /\ StatusOf(j) # "pending") => StatusOf(i) \in {"done", "error"}

\* The run was halted by a failure, re-enabled, and went on behind the failed
\* task.
C2_Witness ==
  \E i, j \in Positions : i < j /\ StatusOf(i) = "error" /\ StatusOf(j) = "generating"

\* C3: when the stream of a task is exhausted the task becomes 'done' and its
\* content is the trimmed concatenation of exactly the fragments that stream
\* delivered.
C3_DoneKeepsTheStream ==
  [][ \A call \in chapterCalls :
        (last'.action = "Done" /\ last'.taskId = call.taskId)
          => LET k == IndexOfId(chapterTasks, call.taskId) IN
               /\ k # 0
               /\ chapterTasks'[k].status = "done"
               /\ IsTrimOf(chapterTasks'[k].content, Concatenation(call.delivered)) ]_vars

\* The stream of the second task ended after a blank and a printing fragment;
\* the first task holds the text of its own stream.
C3_Witness ==
  /\ last.action = "Done"
  /\ last.stream = << <<" ">>, <<"a">> >>
  /\ Len(chapterTasks) >= 2
  /\ chapterTasks[2].id = last.taskId
  /\ chapterTasks[2].content = <<"a">>
  /\ chapterTasks[1].content = <<"a", "a">>

\* The messages a failed chapter may carry: the failure's own, or the fallback
\* for a thrown value that is no Error.
ChapterMessages == {"network", "Failed to generate chapter content."}

\* C4: when the stream of the task at position k fails, task k becomes 'error'
\* with the failure's message and the trim of the fragments accumulated so
\* far as content; the done tasks before it are unchanged, the tasks after it
\* are still pending, auto-run is disabled, the active identifier is cleared
\* and the workflow error is set.
C4_FailureKeepsPartialContent ==
  [][ \A call \in chapterCalls :
        (last'.action = "Failed" /\ last'.taskId = call.taskId)
          => LET k == IndexOfId(chapterTasks, call.taskId) IN
               /\ k # 0
               /\ Len(chapterTasks') = Len(chapterTasks)
               /\ chapterTasks'[k].status = "error"
               /\ chapterTasks'[k].errorMessage \in ChapterMessages
               /\ IsTrimOf(chapterTasks'[k].content, Concatenation(call.delivered))
               /\ \A i \in 1..(k - 1) :
                    chapterTasks[i].status = "done" => chapterTasks'[i] = chapterTasks[i]
               /\ \A i \in (k + 1)..Len(chapterTasks) : chapterTasks'[i].status = "pending"
               /\ ~isAutoGeneratingChapters'
               /\ activelyGeneratingChapterId' = NoId
               /\ error'.kind = "chapter"
               /\ error'.message = chapterTasks'[k].errorMessage ]_vars

\* C5 as stated: after a failure the content of the task is non-empty if any
\* fragment arrived, and empty if none did.
C5_ContentIffFragments ==
  [][ last'.action = "Failed"
        => \A i \in 1..Len(chapterTasks') :
             chapterTasks'[i].id = last'.taskId
               => (chapterTasks'[i].content # <<>> <=> last'.stream # <<>>) ]_vars

\* C5, amended: after a failure the content of the task is empty when no
\* fragment with a character other than whitespace arrived (in particular
\* when none arrived); otherwise it is the trim of the accumulated fragments,
\* which is then non-empty, or it is empty.
C5_ContentAfterFailure ==
  [][ last'.action = "Failed"
        => \A i \in 1..Len(chapterTasks') :
             chapterTasks'[i].id = last'.taskId
               => LET text == Concatenation(last'.stream)
                      blank == \A n \in 1..Len(text) : text[n] \in Whitespace
                  IN /\ blank => chapterTasks'[i].content = <<>>
                     /\ ~blank => \/ chapterTasks'[i].content = <<>>
                                  \/ /\ chapterTasks'[i].content # <<>>
                                     /\ IsTrimOf(chapterTasks'[i].content, text) ]_vars

\* A stream failed after a single blank fragment and the task has no content.
C5_Witness ==
  /\ last.action = "Failed"
  /\ last.stream = << <<" ">> >>
  /\ \E i \in Positions : /\ chapterTasks[i].id = last.taskId
                           /\ chapterTasks[i].status = "error"
                           /\ chapterTasks[i].content = <<>>

\* C6: 'done' and 'error' are terminal.  While the identifier of a done or
\* failed task stays in the list no step changes its status, content or error
\* message, and the task the driver selects is a pending one, also after
\* auto-run was enabled again.
C6_TerminalStatuses ==
  [][ /\ \A i \in Positions :
           StatusOf(i) \in {"done", "error"}
             => \A j \in 1..Len(chapterTasks') :
                  chapterTasks'[j].id = chapterTasks[i].id
                    => /\ chapterTasks'[j].status = chapterTasks[i].status
                       /\ chapterTasks'[j].content = chapterTasks[i].content
                       /\ chapterTasks'[j].errorMessage = chapterTasks[i].errorMessage
      /\ last'.action = "Select"
           => \E i \in Positions : /\ chapterTasks[i].id = last'.taskId
                                    /\ StatusOf(i) = "pending" ]_vars

\* After a halt auto-run was enabled again and the driver selected the task
\* behind the failed one, which kept its partial content.
C6_Witness ==
  /\ last.action = "Select"
  /\ isAutoGeneratingChapters
  /\ \E i \in Positions : /\ StatusOf(i) = "error"
                           /\ chapterTasks[i].content # <<>>
                           /\ chapterTasks[i].id # last.taskId

\* C7: going back to the outline review and forward again does not replace a
\* list that was started: when a task is not pending the forward step leaves
\* every task as it was.
C7_RoundTripKeepsStartedList ==
  [][ ( /\ currentStep = OutlineReview
        /\ currentStep' = GeneratingChapters
        /\ \E i \in Positions : StatusOf(i) # "pending" )
        => chapterTasks' = chapterTasks ]_vars

\* The identifiers a list can have held before the last reset: lists are made
\* by flattenStructureToTasks only, from an outline and a reading of the clock,
\* and every reading before the reset is at most retiredClock.
RetiredIds ==
  { TaskId(FullOutline[n].key, clock, n - 1) :
      n \in 1..MaxEntries, clock \in 1..retiredClock }

\* C8: the list entered after a reset is fresh.  No identifier of the list
\* is one that a list held before the last reset, and the list the forward
\* step produces is all pending with empty content.
C8_FreshAfterReset ==
  /\ IdsOf(chapterTasks) \cap RetiredIds = {}
  /\ last.action = "Proceed"
       => \A i \in Positions : /\ StatusOf(i) = "pending"
                               /\ chapterTasks[i].content = <<>>
                               /\ chapterTasks[i].errorMessage = NoMessage

\* The chapter stage was entered again, with a list of two tasks, after a
\* reset that followed a flattening.
C8_Witness ==
  /\ last.action = "Proceed"
  /\ RetiredIds # {}
  /\ Len(chapterTasks) >= 2

C10_ExhaustionEndsTheRun ==
  [][ last'.action = "Exhausted"
        => /\ isAutoGeneratingChapters /\ ~isAutoGeneratingChapters'
           /\ \A i \in Positions : StatusOf(i) \notin {"pending", "generating"}
           /\ chapterTasks' = chapterTasks
           /\ chapterCalls = {} /\ chapterCalls' = {}
           /\ activelyGeneratingChapterId' = NoId
           /\ \A i \in Positions : StatusOf(i) \in {"done", "error"}
           /\ (\A i \in Positions : StatusOf(i) # "error")
                => \A i \in Positions : StatusOf(i) = "done" ]_vars

\* The driver ended a run over two tasks that are both done.
C10_Witness ==
  /\ last.action = "Exhausted"
  /\ ~isAutoGeneratingChapters
  /\ Len(chapterTasks) >= 2
  /\ \A i \in Positions : StatusOf(i) = "done"

\* The first position of the list whose task is pending
IsLowestPending(k) ==
  /\ k \in Positions /\ StatusOf(k) = "pending"
  /\ \A i \in 1..(k - 1) : StatusOf(i) # "pending"

\* C11: after a halt no task enters 'generating' before the user starts
\* auto-run again: a task enters 'generating' only in a step of the driver
\* taken with auto-run enabled, the driver acts only with auto-run enabled,
\* and auto-run is enabled only by the start action.  The task the driver
\* takes is the lowest pending one, and the failed tasks stay 'error'.
C11_ResumeOnlyByStart ==
  [][ /\ (\E j \in 1..Len(chapterTasks') :
             /\ chapterTasks'[j].status = "generating"
             /\ \A i \in Positions : chapterTasks[i].id = chapterTasks'[j].id
                                       => StatusOf(i) # "generating")
           => (isAutoGeneratingChapters /\ last'.action = "Select")
      /\ last'.action \in {"Select", "Exhausted"} => isAutoGeneratingChapters
      /\ (~isAutoGeneratingChapters /\ isAutoGeneratingChapters')
           => last'.action = "Start"
      /\ last'.action = "Select"
           => /\ \E k \in Positions : /\ IsLowestPending(k)
                                       /\ chapterTasks[k].id = last'.taskId
                                       /\ chapterTasks'[k].status = "generating"
              /\ \A i \in Positions : StatusOf(i) = "error"
                                        => chapterTasks'[i] = chapterTasks[i] ]_vars

\* After a failure the user started auto-run again and the driver took the
\* task behind the failed one.
C11_Witness ==
  /\ last.action = "Select"
  /\ error = NoError
  /\ \E i, j \in Positions : /\ i < j
                              /\ StatusOf(i) = "error"
                              /\ chapterTasks[j].id = last.taskId
                              /\ StatusOf(j) = "generating"

\* The contents of the tasks before position k that are done, in list order
RECURSIVE DoneContentsBefore(_, _)
DoneContentsBefore(tasks, k) ==
  IF k <= 1 THEN <<>>
  ELSE DoneContentsBefore(tasks, k - 1)
       \o (IF tasks[k - 1].status = "done" THEN <<tasks[k - 1].content>> ELSE <<>>)

\* The contents carried by the preceding chapters of a request
CarriedContents(preceding) == [ n \in 1..Len(preceding) |-> preceding[n][2] ]

\* The non-empty texts of a sequence, in order
RECURSIVE NonEmpty(_)
NonEmpty(texts) ==
  IF texts = <<>> THEN <<>>
  ELSE (IF Head(texts) = <<>> THEN <<>> ELSE <<Head(texts)>>) \o NonEmpty(Tail(texts))

RECURSIVE DestringifyMembers(_)
DestringifyMembers(tokens) ==
  IF Len(tokens) < 8 THEN <<>>
  ELSE << <<tokens[3], tokens[7]>> >>
       \o DestringifyMembers(
            SubSeq(tokens, IF Len(tokens) >= 9 /\ tokens[9] = "," THEN 10 ELSE 9, Len(tokens)))

Destringify(tokens) ==
  IF tokens = <<"{}">> THEN <<>>
  ELSE DestringifyMembers(SubSeq(tokens, 2, Len(tokens) - 2))

\* C14: the outline fragment of a task is the value of its entry verbatim
\* when the value is a string, and otherwise a serialization that
\* deserializes to the nested record; the tasks are the top-level entries
\* only.
C14_OutlineFragments ==
  Len(chapterTasks) # 0
    => /\ bookStructure # NoStructure
       /\ Len(chapterTasks) = Len(bookStructure[1])
       /\ \A i \in Positions :
            LET entry == bookStructure[1][i] IN
              /\ chapterTasks[i].title = entry.key
              /\ entry.value.leaf => chapterTasks[i].description = <<entry.value.text>>
              /\ ~entry.value.leaf
                   => Destringify(chapterTasks[i].description) = entry.value.entries

\* The list holds the task of a nested entry with two members next to the
\* task of a string entry.
C14_Witness ==
  /\ Len(chapterTasks) >= 2
  /\ bookStructure[1][1].value.leaf
  /\ ~bookStructure[1][2].value.leaf
  /\ Len(Destringify(chapterTasks[2].description)) = 2

\* Two lists are equal in length and, position by position, in title, outline
\* fragment, status and content
SameButIds(tasks1, tasks2) ==
  /\ Len(tasks1) = Len(tasks2)
  /\ \A i \in 1..Len(tasks1) :
       /\ tasks1[i].title = tasks2[i].title
       /\ tasks1[i].description = tasks2[i].description
       /\ tasks1[i].status = tasks2[i].status
       /\ tasks1[i].content = tasks2[i].content

C17_MissingKeyBlocks ==
  /\ [](apiKeyMissing
          => /\ currentStep = UserInput
             /\ outlineCall = NoCall
             /\ chapterCalls = {}
             /\ \A i \in Positions : StatusOf(i) # "generating")
  /\ [][ apiKeyMissing
           => /\ \/ last'.action = "SubmitWithoutKey" /\ error'.kind = "config"
                 \/ last'.action = "Edit" /\ error' = error
              /\ UNCHANGED <<currentStep, userInputs, bookTitle, bookStructure,
                            chapterTasks, isLoading, isAutoGeneratingChapters,
                            activelyGeneratingChapterId,
                            generatingChapterContentRef, apiKeyMissing,
                            outlineCall, chapterCalls>> ]_vars

\* The form was submitted while the key is missing.
C17_Witness ==
  /\ apiKeyMissing
  /\ last.action = "SubmitWithoutKey"
  /\ error.kind = "config"
  /\ currentStep = UserInput

\* C18: after the backward step from the outline review to the input stage,
\* and after 'start over' at the book view, all derived state is cleared.
C18_ResetClearsAll ==
  last.action \in {"Reset", "StartOver"}
    => /\ currentStep = UserInput
       /\ userInputs = NoInputs
       /\ bookTitle = NoTitle
       /\ bookStructure = NoStructure
       /\ chapterTasks = <<>>
       /\ error = NoError
       /\ ~isLoading
       /\ ~isAutoGeneratingChapters
       /\ activelyGeneratingChapterId = NoId
       /\ generatingChapterContentRef = <<>>

\* The book was started over after a list had been flattened.
C18_Witness ==
  /\ last.action = "StartOver"
  /\ retiredClock >= 1
  /\ currentStep = UserInput

\* C19: the backward step from the chapter stage to the outline review keeps
\* the task list and halts auto-run: right after the step, and in the next
\* state while the stage is still the outline review, auto-run is disabled
\* and the list is the one from before the step.
C19_BackKeepsListAndHalts ==
  [][ /\ (currentStep = GeneratingChapters /\ currentStep' = OutlineReview)
           => (chapterTasks' = chapterTasks /\ ~isAutoGeneratingChapters')
      /\ (last.action = "Back" /\ currentStep' = OutlineReview)
           => (chapterTasks' = chapterTasks /\ ~isAutoGeneratingChapters') ]_vars

\* The state right after the backward step, with a list that was never
\* started.
C19_Witness ==
  /\ last.action = "Back"
  /\ currentStep = OutlineReview
  /\ Len(chapterTasks) >= 2
  /\ \A i \in Positions : StatusOf(i) = "pending"

\* C20: the set of task identifiers changes only at a proceed step, or is
\* emptied by a reset or a new submission; it never changes while the
\* workflow sits in the outline review or in the chapter stage.
C20_IdsChangeOnlyAtProceed ==
  [][ IdsOf(chapterTasks') # IdsOf(chapterTasks)
        => \/ last'.action = "Proceed"
           \/ /\ last'.action \in {"Reset", "StartOver", "Submit"}
              /\ chapterTasks' = <<>> ]_vars

\* The effect has replaced a list at the outline review by one with other
\* identifiers.
C20_Witness ==
  /\ last.action = "Reflatten"
  /\ currentStep = OutlineReview
  /\ now = 2
  /\ retiredClock = 0
  /\ Len(chapterTasks) >= 1

\* C21: the task in flight runs to completion or failure.  While a task is
\* generating no step changes the stage, replaces or empties the list, or
\* gives the task another status than done or error; and, the stream being
\* finite, the task eventually is done or error.
C21_InFlightRunsToItsEnd ==
  /\ [][ \A i \in Positions :
           StatusOf(i) = "generating"
             => /\ currentStep' = currentStep
                /\ Len(chapterTasks') = Len(chapterTasks)
                /\ \A j \in Positions : chapterTasks'[j].id = chapterTasks[j].id
                /\ chapterTasks'[i].status \in {"generating", "done", "error"} ]_vars
  /\ \A n \in 1..MaxEntries :
       (Len(chapterTasks) >= n /\ chapterTasks[n].status = "generating")
         ~> (Len(chapterTasks) >= n /\ chapterTasks[n].status \in {"done", "error"})

\* A stream that had delivered all its fragments failed and its task is
\* 'error'.
C21_Witness ==
  /\ last.action = "Failed"
  /\ Len(last.stream) = MaxChunks
  /\ \E i \in Positions : chapterTasks[i].id = last.taskId /\ StatusOf(i) = "error"

\* The task run last is the task of the stream that has just failed
LastRunFailed ==
  /\ last.action = "Failed"
  /\ \E i \in Positions : chapterTasks[i].id = last.taskId /\ StatusOf(i) = "error"

NoneGenerating == \A i \in Positions : StatusOf(i) # "generating"

\* C22 as stated: once auto-run is enabled at the chapter stage the system
\* eventually has auto-run disabled and no task generating, with every task
\* done or with the task run last newly failed.
C22_BatchEndsDoneOrFailed ==
  (currentStep = GeneratingChapters /\ isAutoGeneratingChapters)
    ~> /\ ~isAutoGeneratingChapters
       /\ NoneGenerating
       /\ \/ \A i \in Positions : StatusOf(i) = "done"
          \/ LastRunFailed

\* C22, amended: once auto-run is enabled at the chapter stage the system
\* eventually has auto-run disabled and no task generating, the driver
\* having found every task done or error or the task run last having failed;
\* or the user has gone back to the outline review with auto-run still
\* enabled.
C22_BatchEnds ==
  (currentStep = GeneratingChapters /\ isAutoGeneratingChapters)
    ~> \/ /\ ~isAutoGeneratingChapters
          /\ NoneGenerating
          /\ \/ /\ last.action = "Exhausted"
                /\ \A i \in Positions : StatusOf(i) \in {"done", "error"}
             \/ LastRunFailed
       \/ (currentStep = OutlineReview /\ isAutoGeneratingChapters)

\* A run that was started again after a failure ended by exhaustion: the
\* list holds the failed task and a done one.
C22_Witness ==
  /\ last.action = "Exhausted"
  /\ ~isAutoGeneratingChapters
  /\ \E i, j \in Positions : StatusOf(i) = "error" /\ StatusOf(j) = "done"

\* C23: the stored configuration is set only by a submission, to the
\* submitted configuration, and is otherwise changed only by a full reset,
\* which clears it; every open model call (outline stream, title call,
\* chapter stream) was issued with the stored configuration.
C23_ConfigurationIsFixed ==
  /\ []( /\ outlineCall # NoCall
              => outlineCall.inputs \in Inputs /\ outlineCall.inputs = userInputs
         /\ \A call \in chapterCalls :
              call.inputs \in Inputs /\ call.inputs = userInputs )
  /\ [][ userInputs' # userInputs
           => \/ /\ last'.action = "Submit"
                 /\ userInputs' \in Inputs
                 /\ outlineCall'.inputs = userInputs'
              \/ /\ last'.action \in {"Reset", "StartOver"}
                 /\ userInputs' = NoInputs ]_vars

\* A chapter stream of a workflow that was submitted with the second
\* configuration has delivered a fragment.
C23_Witness ==
  /\ userInputs = [subject |-> <<" ", "s">>, numberOfChapters |-> 13]
  /\ \E call \in chapterCalls :
       /\ call.inputs = [subject |-> <<" ", "s">>, numberOfChapters |-> 13]
       /\ Len(call.delivered) > 0

\* A configuration the workflow may hold: at least 12 chapters, and a subject
\* that is not empty once trimmed.
IsValidConfiguration(inputs) ==
  inputs.numberOfChapters >= 12 /\ Trim(inputs.subject) # <<>>

\* C24: whatever is typed into the chapter-count field, the count the pane
\* holds is at least 12; every configuration that reached the workflow (the
\* stored one, and the one of every open call) has at least 12 chapters and
\* a subject that is not empty once trimmed; and a submission is passed on
\* only from a form that satisfies both conditions.
C24_ConfigurationIsValid ==
  /\ []( /\ numberOfChapters >= 12
         /\ userInputs # NoInputs => IsValidConfiguration(userInputs)
         /\ outlineCall # NoCall => IsValidConfiguration(outlineCall.inputs)
         /\ \A call \in chapterCalls : IsValidConfiguration(call.inputs) )
  /\ [][ last'.action \in {"Submit", "SubmitWithoutKey"}
           => /\ numberOfChapters >= 12
              /\ Trim(subject) # <<>>
              /\ \/ last'.action # "Submit"
                 \/ userInputs' = [subject |-> subject,
                                   numberOfChapters |-> numberOfChapters] ]_vars

\* The outline was generated for a configuration of 13 chapters whose
\* subject has a leading blank, and the pane has its defaults again.
C24_Witness ==
  /\ currentStep = OutlineReview
  /\ userInputs = [subject |-> <<" ", "s">>, numberOfChapters |-> 13]
  /\ numberOfChapters = 12

\* C25: the stage changes only by submit (input -> outline generation), by
\* the title's arrival after the outline (outline generation -> outline
\* review), by a failure (outline generation -> input), by proceed with an
\* outline present (outline review -> chapter generation), by reset (outline
\* review -> input), by back (chapter generation -> outline review), by
\* complete (chapter generation -> book view) and by start over (book view
\* -> input).
C25_StageTransitions ==
  [][ currentStep' # currentStep
        => \/ /\ currentStep = UserInput /\ currentStep' = GeneratingOutline
              /\ last'.action = "Submit"
           \/ /\ currentStep = GeneratingOutline /\ currentStep' = OutlineReview
              /\ last'.action = "TitleGenerated"
              /\ bookStructure' # NoStructure /\ bookTitle' # NoTitle
           \/ /\ currentStep = GeneratingOutline /\ currentStep' = UserInput
              /\ last'.action = "OutlineFailed"
              /\ error' # NoError
           \/ /\ currentStep = OutlineReview /\ currentStep' = GeneratingChapters
              /\ last'.action = "Proceed"
              /\ bookStructure # NoStructure
           \/ /\ currentStep = OutlineReview /\ currentStep' = UserInput
              /\ last'.action = "Reset"
           \/ /\ currentStep = GeneratingChapters /\ currentStep' = OutlineReview
              /\ last'.action = "Back"
           \/ /\ currentStep = GeneratingChapters /\ currentStep' = ViewBook
              /\ last'.action = "Complete"
           \/ /\ currentStep = ViewBook /\ currentStep' = UserInput
              /\ last'.action = "StartOver" ]_vars

\* The workflow went through every stage and was started over from the book
\* view.
C25_Witness ==
  /\ last.action = "StartOver"
  /\ currentStep = UserInput

\* a is a prefix of b
IsPrefix(a, b) == Len(a) <= Len(b) /\ SubSeq(b, 1, Len(a)) = a

\* C26: the step that selects a task leaves it generating with empty content
\* and no error message; the content of a generating task is the untrimmed
\* concatenation of the fragments its stream has delivered so far; and while
\* a task stays generating every step keeps its previous content as a prefix
\* of the new one.
C26_ContentWhileGenerating ==
  /\ []( \A i \in Positions :
           StatusOf(i) = "generating"
             => \E call \in chapterCalls :
                  /\ call.taskId = chapterTasks[i].id
                  /\ chapterTasks[i].content = Concatenation(call.delivered) )
  /\ [][ last'.action = "Select"
           => \E i \in Positions :
                /\ chapterTasks[i].id = last'.taskId
                /\ chapterTasks'[i].id = last'.taskId
                /\ chapterTasks'[i].status = "generating"
                /\ chapterTasks'[i].content = <<>>
                /\ chapterTasks'[i].errorMessage = NoMessage ]_vars
  /\ [][ \A i \in Positions :
           (StatusOf(i) = "generating" /\ chapterTasks'[i].status = "generating")
             => /\ chapterTasks'[i].id = chapterTasks[i].id
                /\ IsPrefix(chapterTasks[i].content, chapterTasks'[i].content) ]_vars

\* A generating task shows a blank followed by a printing fragment, untrimmed.
C26_Witness ==
  \E i \in Positions, call \in chapterCalls :
    /\ StatusOf(i) = "generating"
    /\ call.taskId = chapterTasks[i].id
    /\ call.delivered = << <<" ">>, <<"a">> >>
    /\ chapterTasks[i].content = <<" ", "a">>

\* C27: at most one model call is open at any time: at most one chapter
\* stream, and none while the outline stream or the title call is open (which
\* is only at the outline-generation stage, where no second submission can
\* start another).
C27_OneCallAtATime ==
  /\ Cardinality(chapterCalls) <= 1
  /\ outlineCall # NoCall
       => chapterCalls = {} /\ currentStep = GeneratingOutline
  /\ chapterCalls # {} => currentStep = GeneratingChapters

\* The stream of a second task is delivering after the first task's stream
\* had ended.
C27_Witness ==
  /\ \E call \in chapterCalls : Len(call.delivered) > 0
  /\ \E i \in Positions : StatusOf(i) = "done"

\* C28: while a task is generating, a step that modifies the list is a step
\* of that task's stream (fragment, completion, failure), and it changes only
\* that task, of which it keeps the id, title, description and path: the
\* list keeps its length and every other task stays as it was.
C28_OnlyTheStreamWritesTheList ==
  [][ \A i \in Positions :
        (StatusOf(i) = "generating" /\ chapterTasks' # chapterTasks)
          => /\ last'.action \in {"Chunk", "Done", "Failed"}
             /\ last'.taskId = chapterTasks[i].id
             /\ Len(chapterTasks') = Len(chapterTasks)
             /\ \A j \in Positions \ {i} : chapterTasks'[j] = chapterTasks[j]
             /\ chapterTasks'[i].id = chapterTasks[i].id
             /\ chapterTasks'[i].title = chapterTasks[i].title
             /\ chapterTasks'[i].description = chapterTasks[i].description
             /\ chapterTasks'[i].path = chapterTasks[i].path ]_vars

\* A fragment arrived for a task while another task holds generated text.
C28_Witness ==
  /\ last.action = "Chunk"
  /\ \E i, j \in Positions :
       /\ StatusOf(i) = "generating"
       /\ chapterTasks[i].id = last.taskId
       /\ chapterTasks[i].content # <<>>
       /\ StatusOf(j) = "done"
       /\ chapterTasks[j].content # <<>>

\* C29: in every reachable state a task that carries an error message has
\* status 'error'; pending, generating and done tasks carry none.
C29_MessageOnlyOnError ==
  \A i \in Positions :
    chapterTasks[i].errorMessage # NoMessage => StatusOf(i) = "error"

\* A failed task carries its message next to a done and message-free one.
C29_Witness ==
  \E i, j \in Positions :
    /\ StatusOf(i) = "error"
    /\ chapterTasks[i].errorMessage = "network"
    /\ StatusOf(j) = "done"
    /\ chapterTasks[j].errorMessage = NoMessage

\* C30: the currently-generating id is set exactly when exactly one task is
\* generating, and it is then the id of that task.
C30_ActiveIdMatchesStatuses ==
  LET generating == { i \in Positions : StatusOf(i) = "generating" }
  IN /\ activelyGeneratingChapterId # NoId <=> Cardinality(generating) = 1
     /\ \A i \in generating : chapterTasks[i].id = activelyGeneratingChapterId

\* The second task is the active one, between a done task and nothing else
\* generating.
C30_Witness ==
  /\ Len(chapterTasks) >= 2
  /\ StatusOf(1) = "done"
  /\ StatusOf(2) = "generating"
  /\ activelyGeneratingChapterId = chapterTasks[2].id

\* C31: in every reachable state, if a task is generating or the
\* currently-generating id is set, then auto-run is enabled and the stage is
\* chapter generation.
C31_GeneratingOnlyInARun ==
  (activelyGeneratingChapterId # NoId
     \/ \E i \in Positions : StatusOf(i) = "generating")
    => isAutoGeneratingChapters /\ currentStep = GeneratingChapters

\* A task of a run that was started again after a failure is generating.
C31_Witness ==
  /\ activelyGeneratingChapterId # NoId
  /\ \E i, j \in Positions :
       /\ StatusOf(i) = "error"
       /\ StatusOf(j) = "generating"
       /\ chapterTasks[j].id = activelyGeneratingChapterId

\* C32 as stated: the automatic steps come to an end.  A re-flattening leaves
\* a state in which the re-flatten effect is not due again, and the driver's
\* finding of no pending task leaves a state in which the driver is not
\* ready again, so that the list written last stays.
C32_AutomaticStepsSettle ==
  /\ last.action = "Reflatten" => ~ReflattenDue
  /\ last.action = "Exhausted" => ~DriverReady

\* C33 as stated: whenever the stage is the input stage no outline is stored
\* and the task list is empty.
C33_NoOutlineAtInput ==
  currentStep = UserInput
    => bookStructure = NoStructure /\ chapterTasks = <<>>

\* The title call failed after the outline had been parsed and stored.
C33_Witness ==
  /\ last.action = "OutlineFailed"
  /\ currentStep = UserInput
  /\ bookStructure # NoStructure
  /\ chapterTasks = <<>>

\* C34 as stated: auto-run becomes enabled only by the start action, taken at
\* the chapter stage with a non-empty list, auto-run disabled and a task that
\* is neither done nor error; and the step after a proceed is never the
\* driver's selection of a task.
C34_RunsStartOnlyByStart ==
  /\ [][ (~isAutoGeneratingChapters /\ isAutoGeneratingChapters')
           => /\ last'.action = "Start"
              /\ currentStep = GeneratingChapters
              /\ Len(chapterTasks) # 0
              /\ \E i \in Positions : StatusOf(i) \notin {"done", "error"} ]_vars
  /\ [][ last.action = "Proceed" => last'.action # "Select" ]_vars

\* The chapter stage was entered by a proceed with auto-run enabled.
C34_Witness ==
  /\ last.action = "Proceed"
  /\ currentStep = GeneratingChapters
  /\ isAutoGeneratingChapters
  /\ Len(chapterTasks) # 0
====
